---- MODULE Spec2Model ----
(***************************************************************************)
(* The ECS (Gregory method) notebook                                       *)
(* demos/Lecture07_BigData/01_calculate_ECS_Gregory_method.ipynb as a      *)
(* state machine: the notebook's code cells run in order, each loop        *)
(* iteration is one step, and an uncaught exception stops the run.         *)
(*                                                                         *)
(* Floating-point numbers are modelled by exact extended rationals         *)
(* <<n, d>>: d > 0 is the reduced fraction n/d, <<1,0>> is +inf,           *)
(* <<-1,0>> is -inf and <<0,0>> is NaN.                                    *)
(***************************************************************************)
EXTENDS Integers, Sequences, FiniteSets, TLC

(***************************************************************************)
(* Extended rational arithmetic (numpy float64 semantics, exact).          *)
(***************************************************************************)
Abs(n) == IF n < 0 THEN -n ELSE n

Sign(n) == IF n < 0 THEN -1 ELSE IF n > 0 THEN 1 ELSE 0

RECURSIVE GCD(_, _)
GCD(a, b) == IF b = 0 THEN a ELSE GCD(b, a % b)

Norm(n, d) ==
    LET g == GCD(Abs(n), Abs(d))
    IN  <<Sign(d) * (n \div g), Abs(d) \div g>>

R(n) == <<n, 1>>

NaN == <<0, 0>>

PInf == <<1, 0>>

NInf == <<-1, 0>>

IsNaN(x) == x = NaN

IsFinite(x) == x[2] # 0

RNeg(x) == <<-x[1], x[2]>>

RAdd(x, y) ==
    IF IsNaN(x) \/ IsNaN(y) THEN NaN
    ELSE IF ~IsFinite(x) THEN (IF ~IsFinite(y) /\ y # x THEN NaN ELSE x)
    ELSE IF ~IsFinite(y) THEN y
    ELSE LET g == GCD(x[2], y[2])
             l == (x[2] \div g) * y[2]
         IN  Norm(x[1] * (l \div x[2]) + y[1] * (l \div y[2]), l)

RSub(x, y) == RAdd(x, RNeg(y))

RMul(x, y) ==
    IF IsNaN(x) \/ IsNaN(y) THEN NaN
    ELSE IF ~IsFinite(x) \/ ~IsFinite(y)
         THEN (IF x[1] = 0 \/ y[1] = 0 THEN NaN
               ELSE <<Sign(x[1]) * Sign(y[1]), 0>>)
    ELSE LET g1 == GCD(Abs(x[1]), y[2])
             g2 == GCD(Abs(y[1]), x[2])
         IN  Norm((x[1] \div g1) * (y[1] \div g2), (x[2] \div g2) * (y[2] \div g1))

\* x / y; zsign is the sign a zero divisor carries (floats have +0.0 and -0.0).
RDiv(x, y, zsign) ==
    IF IsNaN(x) \/ IsNaN(y) THEN NaN
    ELSE IF ~IsFinite(y) THEN (IF ~IsFinite(x) THEN NaN ELSE R(0))
    ELSE IF y[1] = 0 THEN (IF x[1] = 0 THEN NaN ELSE <<Sign(x[1]) * zsign, 0>>)
    ELSE IF ~IsFinite(x) THEN <<Sign(x[1]) * Sign(y[1]), 0>>
    ELSE RMul(x, <<Sign(y[1]) * y[2], Abs(y[1])>>)

\* x < y as floats compare: every comparison with NaN is false.
RLt(x, y) ==
    IF IsNaN(x) \/ IsNaN(y) THEN FALSE
    ELSE IF ~IsFinite(x) THEN x = NInf /\ y # NInf
    ELSE IF ~IsFinite(y) THEN y = PInf
    ELSE LET g == GCD(x[2], y[2])
         IN  x[1] * (y[2] \div g) < y[1] * (x[2] \div g)

RECURSIVE RSum(_)
RSum(s) ==
    IF s = <<>> THEN R(0)
    ELSE IF Len(s) = 1 THEN s[1]
    ELSE LET h == Len(s) \div 2
         IN  RAdd(RSum(SubSeq(s, 1, h)), RSum(SubSeq(s, h + 1, Len(s))))

\* numpy/xarray mean: the mean of an empty selection is NaN.
RMean(s) == IF s = <<>> THEN NaN ELSE RDiv(RSum(s), R(Len(s)), 1)

(***************************************************************************)
(* Ordered dictionaries (Python dicts keep insertion order): a sequence of *)
(* entries [k |-> key, v |-> value] with distinct keys.                    *)
(***************************************************************************)
Keys(d) == [i \in 1..Len(d) |-> d[i].k]

HasKey(d, key) == \E i \in 1..Len(d) : d[i].k = key

Get(d, key) == d[CHOOSE i \in 1..Len(d) : d[i].k = key].v

\* d[key] = val: an existing key keeps its place, a new key goes last.
Put(d, key, val) ==
    IF HasKey(d, key)
    THEN [i \in 1..Len(d) |-> IF d[i].k = key THEN [k |-> key, v |-> val] ELSE d[i]]
    ELSE Append(d, [k |-> key, v |-> val])

(***************************************************************************)
(* xarray objects.  A field is indexed [time][lat][lon]; a DataArray over  *)
(* time or year is [t |-> labels, v |-> values].                           *)
(***************************************************************************)
Min(a, b) == IF a < b THEN a ELSE b

SortedSeq(S) ==
    IF S = {} THEN <<>>
    ELSE LET lo == CHOOSE x \in S : \A y \in S : x <= y
             hi == CHOOSE x \in S : \A y \in S : y <= x
         IN  SelectSeq([k \in 1..(hi - lo + 1) |-> lo + k - 1], LAMBDA y : y \in S)

\* da.isel(year=slice(y0, y1)) for 0 <= y0: positions y0 .. min(y1, size) - 1.
Isel(da, y0, y1) ==
    [t |-> SubSeq(da.t, y0 + 1, Min(y1, Len(da.v))),
     v |-> SubSeq(da.v, y0 + 1, Min(y1, Len(da.v)))]

\* da.groupby('time.year').mean('time'): one value per calendar year, years ascending.
GroupbyYearMean(da) ==
    LET years == SortedSeq({da.t[k] : k \in 1..Len(da.t)})
        idx   == [k \in 1..Len(da.t) |-> k]
        of(y) == LET sel == SelectSeq(idx, LAMBDA k : da.t[k] = y)
                 IN  [i \in 1..Len(sel) |-> da.v[sel[i]]]
    IN  [t |-> years, v |-> [i \in 1..Len(years) |-> RMean(of(years[i]))] \o <<>>]

\* da - m for a scalar m.
SubScalar(da, m) == [t |-> da.t, v |-> [i \in 1..Len(da.v) |-> RSub(da.v[i], m)] \o <<>>]

\* np.cos(np.deg2rad(lat)) at the latitudes the inputs use.
CosDeg(deg) == IF deg = 0 THEN R(1) ELSE <<1, 2>>

\* A mean that divides the weighted sum by the number of grid points.
GlobalMeanByCount(field, time, lat, lon) ==
    LET row(g, i) == RSum([j \in 1..Len(lon) |-> RMul(g[i][j], CosDeg(lat[i]))])
        num(g)    == RSum([i \in 1..Len(lat) |-> row(g, i)])
    IN  [t |-> time,
         v |-> [k \in 1..Len(field) |-> RDiv(num(field[k]), R(Len(lat) * Len(lon)), 1)]]

\* (field * cos_lat_2d).sum(dim=['lat','lon']) / cos_lat_2d.sum(dim=['lat','lon'])
\* with cos_lat_2d = cos(lat) * ones_like(lon).
GlobalMean(field, time, lat, lon) ==
    LET w(i)   == CosDeg(lat[i])
        row(g, i) == RSum([j \in 1..Len(lon) |-> RMul(g[i][j], w(i))])
        num(g) == RSum([i \in 1..Len(lat) |-> row(g, i)])
        den    == RSum([i \in 1..Len(lat) |-> RSum([j \in 1..Len(lon) |-> w(i)])])
    IN  [t |-> time, v |-> [k \in 1..Len(field) |-> RDiv(num(field[k]), den, 1)]]

\* ds_rad['rsdt'] - ds_rad['rsut'] - ds_rad['rlut'], pointwise.
NetToa(rsdt, rsut, rlut) ==
    [k \in 1..Len(rsdt) |-> [i \in 1..Len(rsdt[k]) |-> [j \in 1..Len(rsdt[k][i]) |->
        RSub(RSub(rsdt[k][i][j], rsut[k][i][j]), rlut[k][i][j])]]]

(***************************************************************************)
(* np.polyfit(x, y, 1).  kind "ok": the coefficients; "TypeError": empty x *)
(* or len(x) # len(y); "nonfinite": the scaled Vandermonde matrix holds a  *)
(* NaN (NaN data, or x identically zero, whose column scale is 0).         *)
(* Constant x = c # 0 is rank deficient: lstsq returns the minimum-norm    *)
(* solution of the column-scaled system, a = mean(y)/(2c), b = mean(y)/2.  *)
(***************************************************************************)
AllFinite(s) == \A i \in 1..Len(s) : IsFinite(s[i])

Polyfit(x, y) ==
    IF Len(x) = 0 \/ Len(x) # Len(y)
    THEN [kind |-> "TypeError", a |-> NaN, b |-> NaN]
    ELSE IF ~AllFinite(x) \/ ~AllFinite(y) \/ (\A i \in 1..Len(x) : x[i] = R(0))
    THEN [kind |-> "nonfinite", a |-> NaN, b |-> NaN]
    ELSE IF \A i \in 1..Len(x) : x[i] = x[1]
    THEN [kind |-> "ok",
          a |-> RDiv(RMean(y), RMul(R(2), x[1]), 1),
          b |-> RDiv(RMean(y), R(2), 1)]
    ELSE LET xm  == RMean(x)
             ym  == RMean(y)
             sxx == RSum([i \in 1..Len(x) |-> RMul(RSub(x[i], xm), RSub(x[i], xm))])
             sxy == RSum([i \in 1..Len(x) |-> RMul(RSub(x[i], xm), RSub(y[i], ym))])
             a   == RDiv(sxy, sxx, 1)
         IN  [kind |-> "ok", a |-> a, b |-> RSub(ym, RMul(a, xm))]

(***************************************************************************)
(* sorted(items, key=lambda x: x[1]) as CPython's list.sort does it for a  *)
(* short list: count_run, reverse a descending run, then binarysort; the   *)
(* only comparison is key(a) < key(b).                                     *)
(***************************************************************************)
\* A comparison that takes equal keys for ordered.
KeyLe(p, q) == ~RLt(q.v, p.v)

KeyLt(p, q) == RLt(p.v, q.v)

RECURSIVE RunEnd(_, _, _)
RunEnd(s, k, desc) ==
    IF k > Len(s) THEN k - 1
    ELSE IF KeyLt(s[k], s[k - 1]) = desc THEN RunEnd(s, k + 1, desc)
    ELSE k - 1

Reverse(s) == [i \in 1..Len(s) |-> s[Len(s) + 1 - i]]

RECURSIVE BinPos(_, _, _, _)
BinPos(s, pivot, l, r) ==
    LET p  == l + ((r - l) \div 2)
        l2 == IF KeyLt(pivot, s[p + 1]) THEN l ELSE p + 1
        r2 == IF KeyLt(pivot, s[p + 1]) THEN p ELSE r
    IN  IF l2 < r2 THEN BinPos(s, pivot, l2, r2) ELSE l2

RECURSIVE BinarySort(_, _)
BinarySort(s, start) ==
    IF start > Len(s) THEN s
    ELSE LET l == BinPos(s, s[start], 0, start - 1)
         IN  BinarySort(SubSeq(s, 1, l) \o <<s[start]>> \o SubSeq(s, l + 1, start - 1)
                            \o SubSeq(s, start + 1, Len(s)),
                        start + 1)

Sorted(s) ==
    IF Len(s) < 2 THEN s
    ELSE LET desc == KeyLt(s[2], s[1])
             n    == RunEnd(s, 3, desc)
             run  == IF desc THEN Reverse(SubSeq(s, 1, n)) ELSE SubSeq(s, 1, n)
         IN  BinarySort(run \o SubSeq(s, n + 1, Len(s)), n + 1)

(***************************************************************************)
(* Run names.  intake-esm keys a dataset by its dot-joined catalog fields  *)
(* activity.institution.source.experiment.table.grid; a name is modelled   *)
(* as the sequence of those fields.                                        *)
(***************************************************************************)
\* name.split(".")[2]
ModelName(name) == name[3]

\* word in name, for a word that is one whole field of the name.
InName(word, name) == \E f \in 1..Len(name) : name[f] = word

(***************************************************************************)
(* The program state.                                                      *)
(***************************************************************************)
VARIABLES
    gregory_limits,        \* <<y0, y1>>, the configuration cell
    dset_dict_tas,         \* name -> temperature dataset
    dset_dict_rad,         \* name -> radiative-flux dataset
    pc,                    \* the cell being run, "done" or "aborted"
    i,                     \* position of the running loop in its dictionary
    fault,                 \* the uncaught exception that stopped the run
    ds_dict, gmst_dict, imbalance_dict,
    ctrl_dict, abrupt_dict,
    ctrl_gmst_dict, ctrl_imbalance_dict, abrupt_gmst_dict, abrupt_imbalance_dict,
    example,               \* ctrl_gmst, ctrl_imbalance, abrupt_gmst, abrupt_imbalance of the example
    name,                  \* the loop variable of the results loop
    x_data, y_data, a, b, twoECS,
    results,
    ordered_ECS,
    earlier                \* results and fault of an earlier run of the notebook on the same runs

\* What no analysis cell assigns.
inputs == <<gregory_limits, dset_dict_tas, dset_dict_rad, earlier>>

globalMeans == <<ds_dict, gmst_dict, imbalance_dict>>

dsSplit == <<ctrl_dict, abrupt_dict>>

gmstSplit == <<ctrl_gmst_dict, ctrl_imbalance_dict, abrupt_gmst_dict, abrupt_imbalance_dict>>

fitVars == <<x_data, y_data, a, b>>

vars == <<inputs, pc, i, fault, globalMeans, dsSplit, gmstSplit, example, name,
          fitVars, twoECS, results, ordered_ECS>>

NoFault == [kind |-> "none", at |-> "none"]

EmptyDA == [t |-> <<>>, v |-> <<>>]

EmptyResults ==
    [ECS |-> <<>>, ctrl_gmst |-> <<>>, ctrl_imbalance |-> <<>>,
     abrupt_gmst |-> <<>>, abrupt_imbalance |-> <<>>]

NoEarlier == [defined |-> FALSE, results |-> EmptyResults, fault |-> NoFault]

\* The kernel state when cell `at` is about to run: the inputs, the four
\* per-model dictionaries of the split (cg, ci, ag, ai) and the results so far.
Kernel(limits, tas, rad, at, cg, ci, ag, ai, res) ==
    /\ gregory_limits = limits
    /\ dset_dict_tas = tas
    /\ dset_dict_rad = rad
    /\ pc = at
    /\ i = 1
    /\ fault = NoFault
    /\ ds_dict = <<>> /\ gmst_dict = <<>> /\ imbalance_dict = <<>>
    /\ ctrl_dict = <<>> /\ abrupt_dict = <<>>
    /\ ctrl_gmst_dict = cg /\ ctrl_imbalance_dict = ci
    /\ abrupt_gmst_dict = ag /\ abrupt_imbalance_dict = ai
    /\ example = [defined |-> FALSE, ctrl_gmst |-> EmptyDA, ctrl_imbalance |-> EmptyDA,
                  abrupt_gmst |-> EmptyDA, abrupt_imbalance |-> EmptyDA]
    /\ name = ""
    /\ x_data = EmptyDA /\ y_data = EmptyDA /\ a = NaN /\ b = NaN /\ twoECS = NaN
    /\ results = res
    /\ ordered_ECS = <<>>
    /\ earlier = NoEarlier

\* The kernel state before the first analysis cell runs.
Start(limits, tas, rad) ==
    Kernel(limits, tas, rad, "global_mean", <<>>, <<>>, <<>>, <<>>, EmptyResults)

\* An uncaught exception ends the run.
Raise(kind, at) ==
    /\ fault' = [kind |-> kind, at |-> at]
    /\ pc' = "aborted"

(***************************************************************************)
(* Cell "global mean": the loop over dset_dict_rad.items().                *)
(***************************************************************************)
FluxNames == {"rsdt", "rsut", "rlut"}

\* A presence check that looks at one component only.
HasOneFlux(ds) == "rsdt" \in DOMAIN ds.vars

HasAllFlux(ds) == ("rsdt" \in DOMAIN ds.vars) /\ ("rsut" \in DOMAIN ds.vars)
                      /\ ("rlut" \in DOMAIN ds.vars)

LongNamed(ds) == ("longitude" \in ds.dims) /\ ("latitude" \in ds.dims)

NewName(n) == IF n = "longitude" THEN "lon" ELSE IF n = "latitude" THEN "lat" ELSE n

\* ds.rename({'longitude':'lon', 'latitude':'lat'})
Rename(ds) == [ds EXCEPT !.dims = {NewName(n) : n \in ds.dims},
                         !.coords = {NewName(n) : n \in ds.coords}]

\* drop every coordinate that is not lat, lon or time
DropCoords(ds) == [ds EXCEPT !.coords = ds.coords \cap {"lat", "lon", "time"}]

\* One iteration of the loop, or its end.
GlobalMeanLoop ==
    /\ pc = "global_mean"
    /\ UNCHANGED <<inputs, dsSplit, gmstSplit, example, name, fitVars, twoECS,
                   results, ordered_ECS>>
    /\ IF i > Len(dset_dict_rad)
       THEN pc' = "split_ds" /\ i' = 1 /\ UNCHANGED <<fault, globalMeans>>
       ELSE LET key    == dset_dict_rad[i].k
                ds_rad == dset_dict_rad[i].v
            IN  IF ~HasAllFlux(ds_rad)
                THEN i' = i + 1 /\ UNCHANGED <<pc, fault, globalMeans>>
                ELSE IF ~HasKey(dset_dict_tas, key)
                THEN Raise("KeyError", "global_mean") /\ UNCHANGED <<i, globalMeans>>
                ELSE LET ds_tas == Get(dset_dict_tas, key)
                     IN  IF LongNamed(ds_rad) /\ ~LongNamed(ds_tas)
                         THEN Raise("ValueError", "global_mean") /\ UNCHANGED <<i, globalMeans>>
                         ELSE LET rad == DropCoords(IF LongNamed(ds_rad) THEN Rename(ds_rad) ELSE ds_rad)
                                  tas == DropCoords(IF LongNamed(ds_rad) THEN Rename(ds_tas) ELSE ds_tas)
                              IN  IF ("lat" \notin tas.coords) \/ ~(FluxNames \subseteq DOMAIN rad.vars)
                                  THEN Raise("KeyError", "global_mean") /\ UNCHANGED <<i, globalMeans>>
                                  ELSE LET gmst == GlobalMean(tas.vars["tas"], tas.time, tas.lat, tas.lon)
                                           net_toa == NetToa(rad.vars["rsdt"], rad.vars["rsut"], rad.vars["rlut"])
                                           imbalance == GlobalMean(net_toa, rad.time, rad.lat, rad.lon)
                                       IN  /\ imbalance_dict' = Put(imbalance_dict, key, imbalance)
                                           /\ gmst_dict' = Put(gmst_dict, key, gmst)
                                           /\ ds_dict' = Put(ds_dict, key, tas)
                                           /\ i' = i + 1
                                           /\ UNCHANGED <<pc, fault>>

(***************************************************************************)
(* Cells "split": the filtering passes over ds_dict and gmst_dict.         *)
(***************************************************************************)
\* One pass `for name, x in src.items(): ...; out[model_name] = vals[name]`,
\* where keep holds the positions that the pass's `continue` does not skip.
RECURSIVE Collect(_, _, _, _)
Collect(src, vals, keep, k) ==
    IF k = 0 THEN <<>>
    ELSE LET acc == Collect(src, vals, keep, k - 1)
         IN  IF k \in keep
             THEN Put(acc, ModelName(src[k].k), Get(vals, src[k].k))
             ELSE acc

\* if 'piControl' not in name: continue
KeepCtrl(src) == {k \in 1..Len(src) : InName("piControl", src[k].k)}

\* if ('abrupt-4xCO2' not in name) or (model_name not in ctrl.keys()): continue
KeepAbrupt(src, ctrl) ==
    {k \in 1..Len(src) : ~(~InName("abrupt-4xCO2", src[k].k)
                             \/ ~HasKey(ctrl, ModelName(src[k].k)))}

\* if ('piControl' not in name) or (model_name not in abrupt.keys()): continue
KeepCtrlOfAbrupt(src, abrupt) ==
    {k \in 1..Len(src) : ~(~InName("piControl", src[k].k)
                             \/ ~HasKey(abrupt, ModelName(src[k].k)))}

SplitDs ==
    /\ pc = "split_ds"
    /\ LET ctrl == Collect(ds_dict, ds_dict, KeepCtrl(ds_dict), Len(ds_dict))
       IN  /\ ctrl_dict' = ctrl
           /\ abrupt_dict' = Collect(ds_dict, ds_dict, KeepAbrupt(ds_dict, ctrl), Len(ds_dict))
    /\ pc' = "split_gmst"
    /\ UNCHANGED <<inputs, i, fault, globalMeans, gmstSplit, example, name, fitVars,
                   twoECS, results, ordered_ECS>>

\* A third pass that keeps every control run.
ThirdPassUnfiltered(src, abrupt) == KeepCtrl(src)

\* The third pass of the cell: the control dictionaries are rebuilt from the
\* models that the quadrupling dictionaries hold.
ThirdPass(src, abrupt) == KeepCtrlOfAbrupt(src, abrupt)

SplitGmst ==
    /\ pc = "split_gmst"
    /\ LET n     == Len(gmst_dict)
           ctrl1 == Collect(gmst_dict, gmst_dict, KeepCtrl(gmst_dict), n)
           keepA == KeepAbrupt(gmst_dict, ctrl1)
           abr   == Collect(gmst_dict, gmst_dict, keepA, n)
           keepC == ThirdPass(gmst_dict, abr)
       IN  /\ abrupt_gmst_dict' = abr
           /\ abrupt_imbalance_dict' = Collect(gmst_dict, imbalance_dict, keepA, n)
           /\ ctrl_gmst_dict' = Collect(gmst_dict, gmst_dict, keepC, n)
           /\ ctrl_imbalance_dict' = Collect(gmst_dict, imbalance_dict, keepC, n)
    /\ pc' = "example"
    /\ UNCHANGED <<inputs, i, fault, globalMeans, dsSplit, example, name, fitVars,
                   twoECS, results, ordered_ECS>>

(***************************************************************************)
(* Cells "example": the Gregory method on one model.                       *)
(***************************************************************************)
ExampleModel == "CESM2"

\* The scalar that the example subtracts from a quadrupling series.
ExampleBaseline(ctrl) == RMean(ctrl.v)

Example ==
    /\ pc = "example"
    /\ UNCHANGED <<inputs, i, globalMeans, dsSplit, gmstSplit, fitVars, twoECS,
                   results, ordered_ECS>>
    /\ name' = IF ctrl_gmst_dict = <<>> THEN name
               ELSE ctrl_gmst_dict[Len(ctrl_gmst_dict)].k
    /\ IF ~HasKey(ctrl_gmst_dict, ExampleModel)
       THEN pc' = "example_fit" /\ UNCHANGED <<fault, example>>
       ELSE IF ~HasKey(abrupt_gmst_dict, ExampleModel)
       THEN Raise("KeyError", "example") /\ UNCHANGED example
       ELSE LET ctrl_gmst == GroupbyYearMean(Get(ctrl_gmst_dict, ExampleModel))
                ctrl_imbalance == GroupbyYearMean(Get(ctrl_imbalance_dict, ExampleModel))
            IN  /\ example' =
                      [defined |-> TRUE,
                       ctrl_gmst |-> ctrl_gmst,
                       ctrl_imbalance |-> ctrl_imbalance,
                       abrupt_gmst |->
                           SubScalar(GroupbyYearMean(Get(abrupt_gmst_dict, ExampleModel)),
                                     ExampleBaseline(ctrl_gmst)),
                       abrupt_imbalance |->
                           SubScalar(GroupbyYearMean(Get(abrupt_imbalance_dict, ExampleModel)),
                                     ExampleBaseline(ctrl_imbalance))]
                /\ pc' = "example_fit"
                /\ UNCHANGED fault

\* What np.polyfit can do on x, y: return coefficients or raise.  On a matrix
\* that holds a NaN, lstsq either raises LinAlgError or returns NaN coefficients.
FitOutcomes(x, y) ==
    LET p == Polyfit(x, y)
    IN  IF p.kind = "nonfinite"
        THEN {[kind |-> "LinAlgError", a |-> NaN, b |-> NaN],
              [kind |-> "ok", a |-> NaN, b |-> NaN]}
        ELSE {p}

\* A slice that starts at the first year whatever y0 is.
FitSliceFromStart(da, limits) == Isel(da, 0, limits[2])

\* The slice of the annual series that enters the fit.
FitSlice(da, limits) == Isel(da, limits[1], limits[2])

ZeroSigns == {1, -1}

ExampleFit ==
    /\ pc = "example_fit"
    /\ UNCHANGED <<inputs, i, globalMeans, dsSplit, gmstSplit, example, name,
                   results, ordered_ECS>>
    /\ IF ~example.defined
       THEN Raise("NameError", "example_fit") /\ UNCHANGED <<fitVars, twoECS>>
       ELSE LET y == FitSlice(example.abrupt_imbalance, gregory_limits)
                x == FitSlice(example.abrupt_gmst, gregory_limits)
            IN  /\ y_data' = y
                /\ x_data' = x
                /\ \E fit \in FitOutcomes(x.v, y.v), zs \in ZeroSigns :
                      IF fit.kind # "ok"
                      THEN Raise(fit.kind, "example_fit") /\ UNCHANGED <<a, b, twoECS>>
                      ELSE /\ a' = fit.a
                           /\ b' = fit.b
                           /\ twoECS' = RDiv(fit.b, RNeg(fit.a), zs)
                           /\ pc' = "results"
                           /\ UNCHANGED fault

(***************************************************************************)
(* Cell "results": the Gregory method on every model of ctrl_gmst_dict.    *)
(***************************************************************************)
\* No baseline at all: the quadrupling series is left as it is.
NoBaseline(ctrl, limits) == R(0)

\* ctrl.isel(year=slice(y0, y1)).mean(dim='year')
Baseline(ctrl, limits) == RMean(Isel(ctrl, limits[1], limits[2]).v)

\* if results['abrupt_imbalance'][name].size >= gregory_limits[1]
SizeCheck(gmst, imbalance, limits) == Len(imbalance.v) >= limits[2]

\* b/(-a) / 2.0
ECSOf(fa, fb, zs) == RDiv(RDiv(fb, RNeg(fa), zs), R(2), 1)

ResultsLoop ==
    /\ pc = "results"
    /\ UNCHANGED <<inputs, globalMeans, dsSplit, gmstSplit, example, twoECS, ordered_ECS>>
    /\ IF i > Len(ctrl_gmst_dict)
       THEN pc' = "sort" /\ i' = 1 /\ UNCHANGED <<fault, name, fitVars, results>>
       ELSE LET key    == ctrl_gmst_dict[i].k
                ctrl_g == GroupbyYearMean(Get(ctrl_gmst_dict, key))
                ctrl_i == GroupbyYearMean(Get(ctrl_imbalance_dict, key))
                r1     == [results EXCEPT !.ctrl_gmst = Put(@, key, ctrl_g),
                                          !.ctrl_imbalance = Put(@, key, ctrl_i)]
            IN  /\ name' = key
                /\ IF ~HasKey(abrupt_gmst_dict, key)
                   THEN /\ Raise("KeyError", "results")
                        /\ results' = r1
                        /\ UNCHANGED <<i, fitVars>>
                   ELSE LET abr_g == SubScalar(GroupbyYearMean(Get(abrupt_gmst_dict, key)),
                                               Baseline(ctrl_g, gregory_limits))
                            abr_i == SubScalar(GroupbyYearMean(Get(abrupt_imbalance_dict, key)),
                                               Baseline(ctrl_i, gregory_limits))
                            r2    == [r1 EXCEPT !.abrupt_gmst = Put(@, key, abr_g),
                                                !.abrupt_imbalance = Put(@, key, abr_i)]
                        IN  IF ~SizeCheck(abr_g, abr_i, gregory_limits)
                            THEN /\ results' = r2
                                 /\ i' = i + 1
                                 /\ UNCHANGED <<pc, fault, fitVars>>
                            ELSE LET y == FitSlice(abr_i, gregory_limits)
                                     x == FitSlice(abr_g, gregory_limits)
                                 IN  /\ y_data' = y
                                     /\ x_data' = x
                                     /\ \E fit \in FitOutcomes(x.v, y.v), zs \in ZeroSigns :
                                           IF fit.kind # "ok"
                                           THEN /\ Raise(fit.kind, "results")
                                                /\ results' = r2
                                                /\ UNCHANGED <<i, a, b>>
                                           ELSE /\ a' = fit.a
                                                /\ b' = fit.b
                                                /\ results' = [r2 EXCEPT !.ECS =
                                                       Put(@, key, ECSOf(fit.a, fit.b, zs))]
                                                /\ i' = i + 1
                                                /\ UNCHANGED <<pc, fault>>

(***************************************************************************)
(* Cell "sort": ordered_ECS.                                               *)
(***************************************************************************)
Sort ==
    /\ pc = "sort"
    /\ ordered_ECS' = Sorted(results.ECS)
    /\ pc' = "done"
    /\ UNCHANGED <<inputs, i, fault, globalMeans, dsSplit, gmstSplit, example, name,
                   fitVars, twoECS, results>>

(***************************************************************************)
(* Inputs.  A catalog holds some of the five runs of RunOrder, in that     *)
(* order or the reverse; every run has StepsPerYear time steps in each     *)
(* calendar year; at most one run of the catalog departs from the plain    *)
(* shape (its variant).                                                    *)
(***************************************************************************)
StepsPerYear == 2

WinMax == 3

Windows == {<<y0, WinMax>> : y0 \in 0..1}

RunName(inst, model, exp, grid) == <<"CMIP", inst, model, exp, "Amon", grid>>

RunOrder ==
    <<RunName("NCAR", "CESM2", "piControl", "gn"),
      RunName("MIROC", "MIROC6", "abrupt-4xCO2", "gn"),
      RunName("NCAR", "CESM2", "abrupt-4xCO2", "gn"),
      RunName("MIROC", "MIROC6", "piControl", "gn"),
      RunName("NCAR", "CESM2", "abrupt-4xCO2", "gr")>>

SubOrder(S) == SelectSeq(RunOrder, LAMBDA r : \E k \in S : RunOrder[k] = r)

RunSeqs ==
    {SubOrder(S) : S \in SUBSET (1..Len(RunOrder))}
        \cup {Reverse(SubOrder(S)) : S \in SUBSET (1..Len(RunOrder))}

MissingVariants == {"noflux", "noflux_notas", "notas"}

NamingVariants == {"latitude_both", "latitude_rad", "latitude_tas"}

SeriesVariants == {"short_rad", "short_tas", "short_both", "flatT", "flatN"}

VariantsOf(run) ==
    MissingVariants \cup NamingVariants
        \cup (IF run[4] = "piControl" THEN {} ELSE SeriesVariants)

Specials(runs) ==
    {[at |-> 0, variant |-> "plain"]}
        \cup UNION {{[at |-> k, variant |-> v] : v \in VariantsOf(runs[k])} : k \in 1..Len(runs)}

VariantAt(sp, k) == IF sp.at = k THEN sp.variant ELSE "plain"

IsCtrl(run) == run[4] = "piControl"

\* Annual values of the plain runs: control temperature and imbalance, and
\* the quadrupling run's temperature and imbalance per model.
CtrlT(k) == (2 * k * k + 5 * k) % 8

CtrlN(k) == (2 * k * k + k) % 7

AbruptT(model, k) == IF model = "CESM2" THEN k + (k \div 2) ELSE 2 * k

AbruptN(model, k) ==
    IF model = "CESM2" THEN 10 - 2 * AbruptT(model, k) + ((k * k) % 3) ELSE 12 - 3 * k

AnnualT(run, variant, k) ==
    IF IsCtrl(run) THEN CtrlT(k)
    ELSE IF variant = "flatT" THEN 7 ELSE AbruptT(ModelName(run), k)

AnnualN(run, variant, k) ==
    IF IsCtrl(run) THEN CtrlN(k)
    ELSE IF variant = "flatN" THEN 4 ELSE AbruptN(ModelName(run), k)

\* Time labels (calendar years) and step values of a series with the given annual means.
TimeAxis(years, spy, start) == [k \in 1..(years * spy) |-> start + ((k - 1) \div spy)]

Steps(annual, spy) ==
    [k \in 1..(Len(annual) * spy) |->
        RAdd(annual[((k - 1) \div spy) + 1], R(2 * (((k - 1) % spy) + 1) - (spy + 1)))]

Field(series, off, nlon) ==
    [k \in 1..Len(series) |-> [p \in 1..Len(off) |-> [q \in 1..nlon |->
        RAdd(series[k], R(off[p]))]]]

Grid(model) ==
    IF model = "CESM2"
    THEN [lat |-> <<0>>, lon |-> <<0>>, off |-> <<0>>]
    ELSE [lat |-> <<0, 60>>, lon |-> <<0, 180>>, off |-> <<1, -2>>]

StartYear(run) == IF IsCtrl(run) THEN 1 ELSE 1850

Dataset(long, grid, time, fields) ==
    LET dims == IF long THEN {"time", "latitude", "longitude"} ELSE {"time", "lat", "lon"}
    IN  [dims |-> dims, coords |-> dims \cup {"height"},
         lat |-> grid.lat, lon |-> grid.lon, time |-> time, vars |-> fields]

TasDs(run, long, annual, spy) ==
    LET g == Grid(ModelName(run))
    IN  Dataset(long, g, TimeAxis(Len(annual), spy, StartYear(run)),
                [n \in {"tas"} |-> Field(Steps(annual, spy), g.off, Len(g.lon))])

RadDs(run, long, annual, spy, present) ==
    LET g    == Grid(ModelName(run))
        n    == Len(annual) * spy
        zero == [p \in 1..Len(g.off) |-> 0]
        rsdt == Field([k \in 1..n |-> RAdd(Steps(annual, spy)[k], R(3))], g.off, Len(g.lon))
        rsut == Field([k \in 1..n |-> R(1)], zero, Len(g.lon))
        rlut == Field([k \in 1..n |-> R(2)], g.off, Len(g.lon))
    IN  Dataset(long, g, TimeAxis(Len(annual), spy, StartYear(run)),
                [v \in present |-> IF v = "rsdt" THEN rsdt ELSE IF v = "rsut" THEN rsut ELSE rlut])

Positions(runs, keep(_)) == SelectSeq([k \in 1..Len(runs) |-> k], keep)

SmallTas(runs, sp, w) ==
    LET idx == Positions(runs, LAMBDA k : VariantAt(sp, k) \notin {"notas", "noflux_notas"})
        ds(k) == LET v == VariantAt(sp, k)
                     years == IF v \in {"short_tas", "short_both"} THEN w[2] - 1 ELSE w[2] + 1
                 IN  TasDs(runs[k], v \in {"latitude_both", "latitude_tas"},
                           [y \in 1..years |-> R(AnnualT(runs[k], v, y))], StepsPerYear)
    IN  [j \in 1..Len(idx) |-> [k |-> runs[idx[j]], v |-> ds(idx[j])]]

SmallRad(runs, sp, w) ==
    LET ds(k) == LET v == VariantAt(sp, k)
                     years == IF v \in {"short_rad", "short_both"} THEN w[2] - 1 ELSE w[2] + 1
                 IN  RadDs(runs[k], v \in {"latitude_both", "latitude_rad"},
                           [y \in 1..years |-> R(AnnualN(runs[k], v, y))], StepsPerYear,
                           IF v \in {"noflux", "noflux_notas"} THEN {"rsdt", "rlut"} ELSE FluxNames)
    IN  [j \in 1..Len(runs) |-> [k |-> runs[j], v |-> ds(j)]]

Init ==
    \E w \in Windows, runs \in RunSeqs :
        \E sp \in Specials(runs) :
            Start(w, SmallTas(runs, sp, w), SmallRad(runs, sp, w))

Next ==
    \/ GlobalMeanLoop
    \/ SplitDs
    \/ SplitGmst
    \/ Example
    \/ ExampleFit
    \/ ResultsLoop
    \/ Sort

Spec == Init /\ [][Next]_vars
(***************************************************************************)
(* Properties of the whole notebook run (Spec).                            *)
(***************************************************************************)
KeySet(d) == {d[k].k : k \in 1..Len(d)}

\* The models that came out of the global-mean loop with a run of the experiment.
ModelsWith(exp) ==
    {ModelName(gmst_dict[k].k) : k \in {q \in 1..Len(gmst_dict) : gmst_dict[q].k[4] = exp}}

ModelsWithBoth == ModelsWith("piControl") \cap ModelsWith("abrupt-4xCO2")

InGlobalMean == pc = "global_mean" \/ (pc = "aborted" /\ fault.at = "global_mean")

AfterSplit == ~InGlobalMean /\ pc \notin {"split_ds", "split_gmst"}

ResultMaps == {"ECS", "ctrl_gmst", "ctrl_imbalance", "abrupt_gmst", "abrupt_imbalance"}

\* C1: after the filtering passes the control and the quadrupling dictionaries
\* hold exactly the models that have both experiments; a model without a
\* quadrupling run is in no result mapping; the results loop raises no KeyError
\* and, when it ends, has processed exactly the models that have both.
C1_BothExperiments ==
    /\ AfterSplit =>
          /\ KeySet(ctrl_gmst_dict) = ModelsWithBoth
          /\ KeySet(abrupt_gmst_dict) = ModelsWithBoth
          /\ KeySet(ctrl_imbalance_dict) = ModelsWithBoth
          /\ KeySet(abrupt_imbalance_dict) = ModelsWithBoth
    /\ \A r \in ResultMaps : KeySet(results[r]) \subseteq ModelsWithBoth
    /\ ~(fault.kind = "KeyError" /\ fault.at = "results")
    /\ pc \in {"sort", "done"} => KeySet(results.ctrl_gmst) = ModelsWithBoth

C1_Witness ==
    /\ pc = "done"
    /\ ModelsWith("piControl") \ ModelsWith("abrupt-4xCO2") # {}
    /\ results.ECS # <<>>

LacksFlux(k) == ~(FluxNames \subseteq DOMAIN dset_dict_rad[k].v.vars)

\* C3: a run that lacks a flux component gets no entry in gmst_dict,
\* imbalance_dict or ds_dict and raises nothing, whether or not it has a
\* temperature dataset; every run with the three components that the loop
\* has passed has its entries.
C3_FluxCheckedFirst ==
    \A k \in 1..Len(dset_dict_rad) :
        LET key == dset_dict_rad[k].k
        IN  /\ LacksFlux(k) =>
                  /\ ~HasKey(gmst_dict, key)
                  /\ ~HasKey(imbalance_dict, key)
                  /\ ~HasKey(ds_dict, key)
                  /\ ~(pc = "aborted" /\ fault.at = "global_mean" /\ i = k)
            /\ (~LacksFlux(k) /\ (~InGlobalMean \/ k < i)) =>
                  /\ HasKey(gmst_dict, key)
                  /\ HasKey(imbalance_dict, key)
                  /\ HasKey(ds_dict, key)

C3_Witness ==
    /\ pc = "done"
    /\ \E k, q \in 1..Len(dset_dict_rad) :
          /\ k < q
          /\ LacksFlux(k)
          /\ ~HasKey(dset_dict_tas, dset_dict_rad[k].k)
          /\ HasKey(gmst_dict, dset_dict_rad[q].k)

\* C4: a run of the flux collection without a temperature dataset under its
\* name does not stop the global-mean loop.
C4_BatchIsolation ==
    ~(/\ pc = "aborted"
      /\ fault.at = "global_mean"
      /\ ~HasKey(dset_dict_tas, dset_dict_rad[i].k))

TooShort(m) ==
    \/ Len(Get(results.abrupt_gmst, m).v) < gregory_limits[2]
    \/ Len(Get(results.abrupt_imbalance, m).v) < gregory_limits[2]

\* C2: a model whose temperature or imbalance anomaly series has fewer than
\* y1 values gets no ECS and raises nothing in the results loop, and every
\* model with an ECS had both series of length >= y1.
C2_InsufficientHistory ==
    \A m \in KeySet(results.abrupt_imbalance) :
        /\ TooShort(m) =>
              /\ ~HasKey(results.ECS, m)
              /\ ~(pc = "aborted" /\ fault.at = "results" /\ name = m)
        /\ HasKey(results.ECS, m) => ~TooShort(m)

\* The mean of the values of s at the window's positions y0 .. y1 - 1.
WindowMean(s) ==
    LET lo == gregory_limits[1] + 1
        hi == IF gregory_limits[2] < Len(s) THEN gregory_limits[2] ELSE Len(s)
    IN  IF hi < lo THEN NaN
        ELSE RDiv(RSum([k \in 1..(hi - lo + 1) |-> s[lo + k - 1]]), R(hi - lo + 1), 1)

IsAnomaly(anom, abrupt, ctrl) ==
    /\ Len(anom.v) = Len(abrupt.v)
    /\ \A t \in 1..Len(anom.v) : anom.v[t] = RSub(abrupt.v[t], WindowMean(ctrl.v))

\* C7: in the example and in the results loop an anomaly series is the
\* quadrupling run's annual series minus the mean of the control run's
\* annual series over the window [y0, y1), for temperature and imbalance.
C7_Baseline ==
    /\ example.defined =>
          /\ IsAnomaly(example.abrupt_gmst,
                       GroupbyYearMean(Get(abrupt_gmst_dict, ExampleModel)), example.ctrl_gmst)
          /\ IsAnomaly(example.abrupt_imbalance,
                       GroupbyYearMean(Get(abrupt_imbalance_dict, ExampleModel)),
                       example.ctrl_imbalance)
    /\ \A m \in KeySet(results.abrupt_imbalance) :
          /\ IsAnomaly(Get(results.abrupt_gmst, m),
                       GroupbyYearMean(Get(abrupt_gmst_dict, m)), Get(results.ctrl_gmst, m))
          /\ IsAnomaly(Get(results.abrupt_imbalance, m),
                       GroupbyYearMean(Get(abrupt_imbalance_dict, m)),
                       Get(results.ctrl_imbalance, m))

\* The results-loop half of C7 alone.
C7_LoopBaseline ==
    \A m \in KeySet(results.abrupt_imbalance) :
        /\ IsAnomaly(Get(results.abrupt_gmst, m),
                     GroupbyYearMean(Get(abrupt_gmst_dict, m)), Get(results.ctrl_gmst, m))
        /\ IsAnomaly(Get(results.abrupt_imbalance, m),
                     GroupbyYearMean(Get(abrupt_imbalance_dict, m)),
                     Get(results.ctrl_imbalance, m))

(***************************************************************************)
(* The results loop on drawn series (SpecFit).  The kernel is about to run *)
(* the results cell; the first model's anomaly series are drawn: inside    *)
(* the window the imbalance is a0 * temperature + b0, plus noise unless    *)
(* the draw is exact, and outside the window both series are shifted.  A   *)
(* second, plain model follows it.                                         *)
(***************************************************************************)
TempVals == {0, 1, 2}

SlopeVals == {-2, 0, 1}

InterceptVals == {0, 3}

OutsideShifts == {<<0, 0>>, <<5, 1>>}

InWindow(k, w) == w[1] < k /\ k <= w[2]

DrawnT(xs, w, shift) ==
    [k \in 1..(w[2] + 1) |-> IF InWindow(k, w) THEN xs[k - w[1]] ELSE shift[1]]

DrawnN(xs, w, shift, a0, b0, exact) ==
    [k \in 1..(w[2] + 1) |->
        IF InWindow(k, w)
        THEN a0 * xs[k - w[1]] + b0 + (IF exact THEN 0 ELSE k % 2)
        ELSE a0 * shift[1] + b0 + shift[2]]

\* A monthly series with the given annual values (integers).
MonthlyDA(annual, start) ==
    [t |-> TimeAxis(Len(annual), StepsPerYear, start),
     v |-> Steps([k \in 1..Len(annual) |-> R(annual[k])], StepsPerYear)]

PlainDA(run, w, T) ==
    MonthlyDA([k \in 1..(w[2] + 1) |->
                  IF T THEN AnnualT(run, "plain", k) ELSE AnnualN(run, "plain", k)],
              StartYear(run))

\* The control run of the drawn model is constant: temperature 2, imbalance 1.
InitFit ==
    \E w \in Windows, a0 \in SlopeVals, b0 \in InterceptVals, exact \in BOOLEAN,
       shift \in OutsideShifts :
        \E xs \in [1..(w[2] - w[1]) -> TempVals] :
            LET other == RunOrder[2]
                octrl == RunOrder[4]
                entry(m, da) == [k |-> m, v |-> da]
                flat(c) == MonthlyDA([k \in 1..(w[2] + 1) |-> c], 1)
                drawnT == MonthlyDA([k \in 1..(w[2] + 1) |-> DrawnT(xs, w, shift)[k] + 2], 1850)
                drawnN == MonthlyDA([k \in 1..(w[2] + 1) |->
                                        DrawnN(xs, w, shift, a0, b0, exact)[k] + 1], 1850)
            IN  Kernel(w, <<>>, <<>>, "results",
                       <<entry(ExampleModel, flat(2)), entry(ModelName(octrl), PlainDA(octrl, w, TRUE))>>,
                       <<entry(ExampleModel, flat(1)), entry(ModelName(octrl), PlainDA(octrl, w, FALSE))>>,
                       <<entry(ExampleModel, drawnT), entry(ModelName(other), PlainDA(other, w, TRUE))>>,
                       <<entry(ExampleModel, drawnN), entry(ModelName(other), PlainDA(other, w, FALSE))>>,
                       EmptyResults)

NextFit == ResultsLoop

SpecFit == InitFit /\ [][NextFit]_vars

AnomT(m) == Get(results.abrupt_gmst, m).v

AnomN(m) == Get(results.abrupt_imbalance, m).v

WindowPts == {k \in 1..gregory_limits[2] : gregory_limits[1] < k}

LongEnough(m) == Len(AnomT(m)) >= gregory_limits[2] /\ Len(AnomN(m)) >= gregory_limits[2]

Line(a0, b0, x) == RAdd(RMul(R(a0), x), R(b0))

OnLine(m, a0, b0) ==
    /\ LongEnough(m)
    /\ \A k \in WindowPts : AnomN(m)[k] = Line(a0, b0, AnomT(m)[k])
    /\ \E k, q \in WindowPts : AnomT(m)[k] # AnomT(m)[q]

\* C6: when the window's points of a model lie exactly on Y = a0*X + b0 with
\* a0 # 0 and X not constant, the fit takes exactly the y1 - y0 window points,
\* returns slope a0 and intercept b0 whatever the points outside the window
\* are, and stores ECS = b0/(-a0)/2.
C6_ExactFit ==
    \A m \in KeySet(results.abrupt_imbalance), a0 \in SlopeVals \ {0}, b0 \in InterceptVals :
        OnLine(m, a0, b0) =>
            /\ ~(pc = "aborted" /\ name = m)
            /\ HasKey(results.ECS, m)
            /\ Get(results.ECS, m) = RDiv(RDiv(R(b0), R(-a0), 1), R(2), 1)
            /\ name = m =>
                  /\ a = R(a0)
                  /\ b = R(b0)
                  /\ Len(x_data.v) = gregory_limits[2] - gregory_limits[1]
                  /\ Len(y_data.v) = gregory_limits[2] - gregory_limits[1]
                  /\ \A k \in WindowPts :
                        /\ x_data.v[k - gregory_limits[1]] = AnomT(m)[k]
                        /\ y_data.v[k - gregory_limits[1]] = AnomN(m)[k]

C6_Witness ==
    \E m \in KeySet(results.ECS), a0 \in SlopeVals \ {0}, b0 \in InterceptVals :
        /\ OnLine(m, a0, b0)
        /\ name = m
        /\ \E k \in 1..gregory_limits[1] : AnomN(m)[k] # Line(a0, b0, AnomT(m)[k])
        /\ \E k \in (gregory_limits[2] + 1)..Len(AnomN(m)) :
              AnomN(m)[k] # Line(a0, b0, AnomT(m)[k])

Degenerate(m) ==
    /\ LongEnough(m)
    /\ \/ \A k, q \in WindowPts : AnomT(m)[k] = AnomT(m)[q]
       \/ \A k, q \in WindowPts : AnomN(m)[k] = AnomN(m)[q]
       \/ name = m /\ pc # "aborted" /\ a = R(0)

\* C8: a model whose fit is degenerate (flat imbalance, so slope zero, or
\* constant temperature anomaly over the window) raises nothing and has an
\* ECS entry that is infinite or NaN.
C8_DegenerateFit ==
    \A m \in KeySet(results.abrupt_imbalance) :
        Degenerate(m) =>
            /\ ~(pc = "aborted" /\ name = m)
            /\ HasKey(results.ECS, m)
            /\ ~IsFinite(Get(results.ECS, m))

\* The zero-slope half of C8: flat imbalance over a window whose temperature
\* anomaly varies gives an infinite or NaN ECS.
C8_ZeroSlope ==
    \A m \in KeySet(results.abrupt_imbalance) :
        (/\ LongEnough(m)
         /\ \A k, q \in WindowPts : AnomN(m)[k] = AnomN(m)[q]
         /\ \E k, q \in WindowPts : AnomT(m)[k] # AnomT(m)[q]) =>
            /\ ~(pc = "aborted" /\ name = m)
            /\ HasKey(results.ECS, m)
            /\ ~IsFinite(Get(results.ECS, m))

(***************************************************************************)
(* The sorting cell on drawn results (SpecSort): results['ECS'] holds up   *)
(* to MaxModels entries, in any insertion order, with values drawn from    *)
(* ECSVals.                                                                *)
(***************************************************************************)
MaxModels == 3

ModelNames == <<"A", "B", "C", "D", "E">>

ECSVals == {<<11, 10>>, <<16, 5>>, NaN, PInf, NInf}

Injective(f) == \A p, q \in DOMAIN f : f[p] = f[q] => p = q

InitSort ==
    \E n \in 0..MaxModels :
        \E ks \in [1..n -> {ModelNames[j] : j \in 1..MaxModels}], vs \in [1..n -> ECSVals] :
            /\ Injective(ks)
            /\ Kernel(<<0, WinMax>>, <<>>, <<>>, "sort", <<>>, <<>>, <<>>, <<>>,
                      [EmptyResults EXCEPT !.ECS = [j \in 1..n |-> [k |-> ks[j], v |-> vs[j]]]])

NextSort == Sort

SpecSort == InitSort /\ [][NextSort]_vars

\* Float equality: NaN equals nothing.
FEq(x, y) == ~IsNaN(x) /\ ~IsNaN(y) /\ x = y

PosIn(d, key) == CHOOSE j \in 1..Len(d) : d[j].k = key

IsPermutation ==
    /\ Len(ordered_ECS) = Len(results.ECS)
    /\ KeySet(ordered_ECS) = KeySet(results.ECS)
    /\ \A j \in 1..Len(ordered_ECS) :
          ordered_ECS[j].v = Get(results.ECS, ordered_ECS[j].k)

Ascending ==
    \A p, q \in 1..Len(ordered_ECS) :
        p < q => /\ ~RLt(ordered_ECS[q].v, ordered_ECS[p].v)
                 /\ ~IsNaN(ordered_ECS[p].v)
                 /\ ~IsNaN(ordered_ECS[q].v)

StableTies ==
    \A p, q \in 1..Len(ordered_ECS) :
        (p < q /\ FEq(ordered_ECS[p].v, ordered_ECS[q].v)) =>
            PosIn(results.ECS, ordered_ECS[p].k) < PosIn(results.ECS, ordered_ECS[q].k)

NoNaNECS == \A j \in 1..Len(results.ECS) : ~IsNaN(results.ECS[j].v)

\* C9 as stated: after the sorting cell ordered_ECS is a permutation of
\* results['ECS'], every earlier entry is <= every later one, and models with
\* equal ECS keep their insertion order.
C9_SortedStable ==
    pc = "done" => IsPermutation /\ Ascending /\ StableTies

\* C9 amended: ordered_ECS is always a permutation of results['ECS']; when no
\* ECS value is NaN it is in ascending order and models with equal ECS keep
\* their insertion order.
C9_SortedUnlessNaN ==
    pc = "done" => /\ IsPermutation
                   /\ NoNaNECS => Ascending /\ StableTies

C9_Witness ==
    /\ pc = "done"
    /\ results.ECS = <<[k |-> "A", v |-> <<16, 5>>], [k |-> "B", v |-> <<11, 10>>],
                       [k |-> "C", v |-> <<16, 5>>]>>
    /\ ordered_ECS = <<[k |-> "B", v |-> <<11, 10>>], [k |-> "A", v |-> <<16, 5>>],
                       [k |-> "C", v |-> <<16, 5>>]>>

(***************************************************************************)
(* The notebook on century-long annual series (SpecNotebook).  CESM2 has a *)
(* control run with temperature 0 and imbalance 5: 600 constant years, 200 *)
(* constant years, or 200 years raised by 6 in the last 50; and a          *)
(* quadrupling run of 150 years whose temperature rises linearly from 0 to *)
(* 4 while its imbalance falls linearly from 8 to 0.  gregory_limits is    *)
(* the notebook's [0, 150] or the window [100, 150].  The short MIROC6     *)
(* runs may come before or after.                                          *)
(***************************************************************************)
GregoryLimits == {<<0, 150>>, <<100, 150>>}

CenturyControls ==
    {[years |-> 600, drift |-> FALSE], [years |-> 200, drift |-> FALSE],
     [years |-> 200, drift |-> TRUE]}

CenturyCtrl(c, level) ==
    [k \in 1..c.years |-> R(IF c.drift /\ k > c.years - 50 THEN level + 6 ELSE level)]

CenturyAbruptT == [k \in 1..150 |-> Norm(4 * (k - 1), 149)]

CenturyAbruptN == [k \in 1..150 |-> Norm(8 * (149 - (k - 1)), 149)]

CenturyTas(c) ==
    <<[k |-> RunOrder[1], v |-> TasDs(RunOrder[1], FALSE, CenturyCtrl(c, 0), 1)],
      [k |-> RunOrder[3], v |-> TasDs(RunOrder[3], FALSE, CenturyAbruptT, 1)]>>

CenturyRad(c) ==
    <<[k |-> RunOrder[1], v |-> RadDs(RunOrder[1], FALSE, CenturyCtrl(c, 5), 1, FluxNames)],
      [k |-> RunOrder[3], v |-> RadDs(RunOrder[3], FALSE, CenturyAbruptN, 1, FluxNames)]>>

ShortRuns == <<RunOrder[2], RunOrder[4]>>

Plain == [at |-> 0, variant |-> "plain"]

InitNotebook ==
    \E limits \in GregoryLimits, c \in CenturyControls, others \in {"none", "before", "after"} :
        LET stas == SmallTas(ShortRuns, Plain, <<0, WinMax>>)
            srad == SmallRad(ShortRuns, Plain, <<0, WinMax>>)
            join(century, short) ==
                IF others = "none" THEN century
                ELSE IF others = "before" THEN short \o century
                ELSE century \o short
        IN  Start(limits, join(CenturyTas(c), stas), join(CenturyRad(c), srad))

SpecNotebook == InitNotebook /\ [][Next]_vars

\* The end-to-end scenario: window [100, 150), 600 constant control years.
Scenario ==
    /\ gregory_limits = <<100, 150>>
    /\ HasKey(ctrl_gmst_dict, ExampleModel)
    /\ HasKey(abrupt_gmst_dict, ExampleModel)
    /\ Len(Get(ctrl_gmst_dict, ExampleModel).v) = 600
    /\ \A k \in 1..600 :
          /\ Get(ctrl_gmst_dict, ExampleModel).v[k] = R(0)
          /\ Get(ctrl_imbalance_dict, ExampleModel).v[k] = R(5)
    /\ Len(Get(abrupt_gmst_dict, ExampleModel).v) = 150
    /\ \A k \in 1..150 :
          /\ Get(abrupt_gmst_dict, ExampleModel).v[k] = Norm(4 * (k - 1), 149)
          /\ Get(abrupt_imbalance_dict, ExampleModel).v[k] = Norm(8 * (150 - k), 149)

LastFitted == results.ECS[Len(results.ECS)].k

LoopFitted(m) == results.ECS # <<>> /\ LastFitted = m

\* C5 as stated: in the scenario the results loop yields a = -2, b = 8 and
\* ECS = 2 for the model.
C5_EndToEnd ==
    (Scenario /\ LoopFitted(ExampleModel)) =>
        /\ a = R(-2)
        /\ b = R(8)
        /\ Get(results.ECS, ExampleModel) = R(2)

\* C5 amended: in the scenario the control imbalance 5 is subtracted from the
\* quadrupling imbalance, so the results loop yields a = -2, b = 3 and
\* ECS = 3/2/2 = 3/4 for the model.
C5_EndToEndAnomaly ==
    (Scenario /\ LoopFitted(ExampleModel)) =>
        /\ a = R(-2)
        /\ b = R(3)
        /\ Get(results.ECS, ExampleModel) = Norm(3, 4)
        /\ Len(x_data.v) = 50

C5_Witness == Scenario /\ LoopFitted(ExampleModel) /\ pc = "done"

LastMean(s, n) == RMean(SubSeq(s, Len(s) - n + 1, Len(s)))

ElapsedIn(da, first, lo, hi) ==
    \A j \in 1..Len(da.t) : lo <= da.t[j] - first /\ da.t[j] - first < hi

\* C10: the points that enter the fit, in the example and in the results
\* loop, are those of elapsed years 100 .. 149 of the quadrupling run, and
\* the anomalies are taken against the mean of the control run's last 50 years.
C10_DocumentedWindow ==
    /\ (pc = "results" /\ i = 1 /\ results.ECS = <<>> /\ example.defined) =>
          /\ ElapsedIn(x_data, example.abrupt_gmst.t[1], 100, 150)
          /\ example.abrupt_gmst.v[1] =
                 RSub(Get(abrupt_gmst_dict, ExampleModel).v[1],
                      LastMean(example.ctrl_gmst.v, 50))
    /\ results.ECS # <<>> =>
          /\ ElapsedIn(x_data, Get(results.abrupt_gmst, LastFitted).t[1], 100, 150)
          /\ ElapsedIn(y_data, Get(results.abrupt_imbalance, LastFitted).t[1], 100, 150)
          /\ Get(results.abrupt_gmst, LastFitted).v[1] =
                 RSub(GroupbyYearMean(Get(abrupt_gmst_dict, LastFitted)).v[1],
                      LastMean(Get(results.ctrl_gmst, LastFitted).v, 50))

\* The flux and temperature datasets of run k name their spatial dimensions differently.
GridMismatch(k) ==
    /\ HasKey(dset_dict_tas, dset_dict_rad[k].k)
    /\ LongNamed(dset_dict_rad[k].v) # LongNamed(Get(dset_dict_tas, dset_dict_rad[k].k))

\* C11: a run whose two datasets name their spatial dimensions differently
\* never stops the global-mean loop: once the loop has passed it, it is
\* either stored under 'lat'/'lon' names or has no entry at all.
C11_GridMismatch ==
    \A k \in 1..Len(dset_dict_rad) :
        GridMismatch(k) =>
            /\ ~(pc = "aborted" /\ fault.at = "global_mean" /\ i = k)
            /\ HasKey(ds_dict, dset_dict_rad[k].k) =>
                  /\ "lat" \in Get(ds_dict, dset_dict_rad[k].k).dims
                  /\ HasKey(gmst_dict, dset_dict_rad[k].k)
                  /\ HasKey(imbalance_dict, dset_dict_rad[k].k)

(***************************************************************************)
(* The notebook run twice on the same runs (SpecOrder): when a run has     *)
(* ended, the kernel is restarted and the cells run again with the two     *)
(* dataset dictionaries holding the same entries in the reverse order      *)
(* (to_dataset_dict fixes no order of its keys).                           *)
(***************************************************************************)
Rerun ==
    /\ pc \in {"done", "aborted"}
    /\ ~earlier.defined
    /\ earlier' = [defined |-> TRUE, results |-> results, fault |-> fault]
    /\ dset_dict_rad' = Reverse(dset_dict_rad)
    /\ dset_dict_tas' = Reverse(dset_dict_tas)
    /\ pc' = "global_mean"
    /\ i' = 1
    /\ fault' = NoFault
    /\ ds_dict' = <<>> /\ gmst_dict' = <<>> /\ imbalance_dict' = <<>>
    /\ ctrl_dict' = <<>> /\ abrupt_dict' = <<>>
    /\ ctrl_gmst_dict' = <<>> /\ ctrl_imbalance_dict' = <<>>
    /\ abrupt_gmst_dict' = <<>> /\ abrupt_imbalance_dict' = <<>>
    /\ example' = [defined |-> FALSE, ctrl_gmst |-> EmptyDA, ctrl_imbalance |-> EmptyDA,
                   abrupt_gmst |-> EmptyDA, abrupt_imbalance |-> EmptyDA]
    /\ name' = ""
    /\ x_data' = EmptyDA /\ y_data' = EmptyDA /\ a' = NaN /\ b' = NaN /\ twoECS' = NaN
    /\ results' = EmptyResults
    /\ ordered_ECS' = <<>>
    /\ UNCHANGED gregory_limits

InitOrder ==
    \E runs \in {SubOrder(S) : S \in SUBSET (1..Len(RunOrder))} :
        \E sp \in Specials(runs) :
            Start(<<0, WinMax>>, SmallTas(runs, sp, <<0, WinMax>>),
                  SmallRad(runs, sp, <<0, WinMax>>))

NextOrder == Next \/ Rerun

SpecOrder == InitOrder /\ [][NextOrder]_vars

IsInf(x) == x = PInf \/ x = NInf

\* Two stored values agree; the sign of an infinite ECS is the sign of a
\* zero slope and is left open.
SameValue(x, y) == x = y \/ (IsInf(x) /\ IsInf(y))

\* Two result mappings hold the same models with the same series and ECS.
SameMapping(r1, r2) ==
    \A r \in ResultMaps :
        /\ KeySet(r1[r]) = KeySet(r2[r])
        /\ \A m \in KeySet(r1[r]) : SameValue(Get(r1[r], m), Get(r2[r], m))

BothRunsDone == earlier.defined /\ pc = "done" /\ earlier.fault = NoFault

\* C12: when the notebook has run to its end twice on the same runs, iterated
\* in two orders, the two result mappings (model -> series and ECS) are the same.
C12_OrderIndependence == BothRunsDone => SameMapping(results, earlier.results)

\* Two runs of the input map to the same model name and experiment.
DuplicateRuns ==
    \E k, q \in 1..Len(dset_dict_rad) :
        /\ k # q
        /\ ModelName(dset_dict_rad[k].k) = ModelName(dset_dict_rad[q].k)
        /\ dset_dict_rad[k].k[4] = dset_dict_rad[q].k[4]

\* What holds of C12: when no two runs map to the same model and experiment,
\* the two result mappings agree.
C12_DistinctRuns ==
    (BothRunsDone /\ ~DuplicateRuns) => SameMapping(results, earlier.results)

(***************************************************************************)
(* The global-mean loop on one run with drawn grids and fields (SpecMean). *)
(* The grid has one to three latitude rows at 0 and +-60 degrees and up to *)
(* MaxLon longitudes; the temperature and the flux components are the same *)
(* at every grid point and time step, or differ from row to row.           *)
(***************************************************************************)
MaxLon == 2

Lats == {<<0>>, <<60>>, <<0, 60>>, <<-60, 0, 60>>}

FieldVals == {0, 3, -2}

FluxVals == {<<8, 1, 2>>, <<5, 5, 0>>}

\* A field over `steps` time steps whose value at row p is v + p * slope.
RowField(v, slope, lat, nlon, steps) ==
    [k \in 1..steps |-> [p \in 1..Len(lat) |-> [q \in 1..nlon |-> R(v + p * slope)]]]

InitMean ==
    \E lat \in Lats, nlon \in 1..MaxLon, v \in FieldVals, c \in FluxVals, slope \in {0, 1} :
        LET key  == RunOrder[1]
            grid == [lat |-> lat, lon |-> [q \in 1..nlon |-> (q - 1) * 90]]
            time == TimeAxis(1, StepsPerYear, StartYear(key))
            fld(x, sl) == RowField(x, sl, lat, nlon, StepsPerYear)
        IN  Start(<<0, WinMax>>,
                  <<[k |-> key, v |-> Dataset(FALSE, grid, time, [n \in {"tas"} |-> fld(v, slope)])]>>,
                  <<[k |-> key,
                     v |-> Dataset(FALSE, grid, time,
                                   [n \in FluxNames |->
                                       IF n = "rsdt" THEN fld(c[1], 0)
                                       ELSE IF n = "rsut" THEN fld(c[2], slope)
                                       ELSE fld(c[3], 0)])]>>)

NextMean == GlobalMeanLoop

SpecMean == InitMean /\ [][NextMean]_vars

\* Every grid point and time step of the field holds v.
Uniform(field, v) ==
    \A k \in 1..Len(field) : \A p \in 1..Len(field[k]) : \A q \in 1..Len(field[k][p]) :
        field[k][p][q] = v

UniformValues(field) == {v \in {field[1][1][1]} : Uniform(field, v)}

\* sum(x * w) / sum(w) over the grid points of time step k, w the row's weight.
WeightedMeanAt(x(_, _), lat, nlon) ==
    RDiv(RSum([p \in 1..Len(lat) |->
                  RSum([q \in 1..nlon |-> RMul(x(p, q), CosDeg(lat[p]))])]),
         RSum([p \in 1..Len(lat) |-> RMul(R(nlon), CosDeg(lat[p]))]), 1)

\* C13: a temperature field that holds v at every grid point and time step
\* has global mean v at every time step, whatever the grid's latitude rows
\* are; the imbalance series is the weighted mean of the pointwise
\* rsdt - rsut - rlut, and is c1 - c2 - c3 when the components are uniform.
C13_AreaWeightedMean ==
    \A j \in 1..Len(gmst_dict) :
        LET key == gmst_dict[j].k
            tas == Get(dset_dict_tas, key)
            rad == Get(dset_dict_rad, key)
            net(k, p, q) == RSub(RSub(rad.vars["rsdt"][k][p][q], rad.vars["rsut"][k][p][q]),
                                 rad.vars["rlut"][k][p][q])
        IN  /\ \A v \in UniformValues(tas.vars["tas"]) :
                  \A k \in 1..Len(gmst_dict[j].v.v) : gmst_dict[j].v.v[k] = v
            /\ Len(gmst_dict[j].v.v) = Len(tas.vars["tas"])
            /\ Len(Get(imbalance_dict, key).v) = Len(rad.vars["rsdt"])
            /\ \A k \in 1..Len(rad.vars["rsdt"]) :
                  Get(imbalance_dict, key).v[k] =
                      WeightedMeanAt(LAMBDA p, q : net(k, p, q), rad.lat, Len(rad.lon))
            /\ \A c1 \in UniformValues(rad.vars["rsdt"]), c2 \in UniformValues(rad.vars["rsut"]),
                  c3 \in UniformValues(rad.vars["rlut"]) :
                  \A k \in 1..Len(rad.vars["rsdt"]) :
                      Get(imbalance_dict, key).v[k] = RSub(RSub(c1, c2), c3)

C13_Witness ==
    \E j \in 1..Len(gmst_dict) :
        LET tas == Get(dset_dict_tas, gmst_dict[j].k)
        IN  /\ Uniform(tas.vars["tas"], R(3))
            /\ Len(tas.lon) > 1
            /\ \E p, q \in 1..Len(tas.lat) : CosDeg(tas.lat[p]) # CosDeg(tas.lat[q])
            /\ gmst_dict[j].v.v[1] = R(3)

====
